---- MODULE Spec2Model ----
(***************************************************************************)
(* A model of the two command-line pipelines of the repository:            *)
(*   Program A  src/bin/transcribe_youtube.py  (title -> audio -> SRT)     *)
(*   Program B  src/pdf_to_audiobook.py        (PDF/TXT -> script -> MP3)  *)
(* Strings whose characters the code inspects (paths, language codes,      *)
(* video titles) are sequences of one-character strings.  External tools   *)
(* and servers are the environment: each call draws its outcome from the   *)
(* outcomes the call can have.                                             *)
(***************************************************************************)
EXTENDS Naturals, Integers, Sequences, FiniteSets, TLC

VARIABLES
    pc,             \* position of the running program
    exit_code,      \* -1 while running, then the process exit status 0, 1, 2
    uncaught,       \* TRUE when the process ended by an uncaught exception
    log,            \* external effects so far, in order (history)
    files,          \* output files on disk: name -> content
    \* ---- Program B (pdf_to_audiobook.py)
    input_file,     \* argv: the input path
    lang_arg,       \* argv: the optional language argument, NoArg when absent
    input_exists,   \* environment: os.path.exists(input_file)
    api_key_set,    \* environment: GEMINI_API_KEY is set and non-empty
    language,       \* main's local: None or the chosen code
    typed,          \* the line last read from stdin by select_language
    lang_input,     \* select_language's local
    voice,          \* main's local
    file_extension, \* main's local
    processed_script, \* main's local: format_text_with_gemini's result
    script_for_tts, \* main's local
    ret,            \* generate_audiobook: "not_called", "True", "False", "raised"
    \* ---- Program A (transcribe_youtube.py)
    title_rc,       \* return code of the title lookup, -1 before it ran
    title,          \* the video title
    safe_title      \* the sanitized title

vars == <<pc, exit_code, uncaught, log, files, input_file, lang_arg,
          input_exists, api_key_set, language, typed, lang_input, voice,
          file_extension, processed_script, script_for_tts, ret, title_rc,
          title, safe_title>>

varsB == <<input_file, lang_arg, input_exists, api_key_set, language, typed,
           lang_input, voice, file_extension, processed_script,
           script_for_tts, ret>>

varsA == <<title_rc, title, safe_title>>

\* what a run of Program B is given and never assigns
inputsB == <<input_file, lang_arg, input_exists, api_key_set>>

(***************************************************************************)
(* Bounds                                                                  *)
(***************************************************************************)
MaxStemLen == 1     \* characters in front of the path's suffix
MaxLangLen == 2     \* characters of a language string (argument or typed)
MaxChunks == 2      \* chunks in a TTS response body
MaxTitleLen == 3    \* characters of yt-dlp's title output

\* Python's None for a string-valued name, and an absent argv entry: one-element
\* sequences no string of characters equals
None == <<"None">>
NoArg == <<"NoArg">>

SeqsUpTo(S, n) == UNION {[1..k -> S] : k \in 0..n}

(***************************************************************************)
(* String helpers of the Python library, as the code uses them             *)
(***************************************************************************)
\* str.lower() on one character
LowerChar(c) ==
    CASE c = "D" -> "d" [] c = "E" -> "e" [] c = "F" -> "f"
      [] c = "N" -> "n" [] c = "P" -> "p" [] c = "S" -> "s"
      [] c = "T" -> "t" [] c = "X" -> "x" [] OTHER -> c

\* str.lower()
Lower(s) == [i \in 1..Len(s) |-> LowerChar(s[i])]

\* str.rfind(c): the last index of c (1-based), 0 when absent
RFind(s, c) ==
    LET hits == {i \in 1..Len(s) : s[i] = c}
    IN  IF hits = {} THEN 0 ELSE CHOOSE i \in hits : \A j \in hits : j <= i

\* os.path.splitext(p): <<root, ext>>; leading dots of the last component
\* do not start an extension
splitext(p) ==
    LET sepIndex == RFind(p, "/")
        dotIndex == RFind(p, ".")
    IN  IF /\ dotIndex > sepIndex
           /\ \E k \in (sepIndex + 1)..(dotIndex - 1) : p[k] # "."
        THEN <<SubSeq(p, 1, dotIndex - 1), SubSeq(p, dotIndex, Len(p))>>
        ELSE <<p, <<>> >>

\* os.path.basename(p)
os_basename(p) == SubSeq(p, RFind(p, "/") + 1, Len(p))

DotPdf == <<".", "p", "d", "f">>
DotTxt == <<".", "t", "x", "t">>
En == <<"e", "n">>
Es == <<"e", "s">>

(***************************************************************************)
(* Program B: pdf_to_audiobook.py                                          *)
(***************************************************************************)
PRIMARY_SERVER == "192.168.20.9:8880"
FALLBACK_SERVER == "localhost:8880"
GEMINI_API_URL == "generativelanguage.googleapis.com"

\* The inputs of a run: paths are a stem followed by one of the spellings
\* below, language strings are short strings over the letters of the codes.
StemAlphabet == {"a", ".", "/"}
Suffixes ==
    { <<>>, DotPdf, DotTxt,
      <<".", "P", "D", "F">>, <<".", "P", "d", "f">>,
      <<".", "T", "X", "T">>, <<".", "t", "X", "t">>,
      <<".", "p", "d">>, <<".", "p", "d", "f", "x">>, <<"p", "d", "f">>,
      <<".", "p", "d", "f", ".">>, <<".", "t", "x", "t", "/">>,
      <<".", "t", "x", "t", "/", "a">>, <<".", "m", "p", "3">>,
      <<".", "p", "d", "f", ".", "t", "x", "t">>,
      <<"a", ".", "P", "d", "f">>, <<"/", ".", "p", "d", "f">>,
      <<"a", ".", ".", "t", "x", "t">> }
Paths == {st \o su : st \in SeqsUpTo(StemAlphabet, MaxStemLen), su \in Suffixes}
LangAlphabet == {"e", "n", "s", "E"}
LangStrings == SeqsUpTo(LangAlphabet, MaxLangLen)
Scripts == {"Chapter one.", "Capitulo uno."}

\* an effect on the world: a subprocess run, an HTTP request, a file opened
\* for writing
Event(kind, target, arg, result) ==
    [kind |-> kind, target |-> target, arg |-> arg, result |-> result]
Logged(e) == log' = Append(log, e)

\* open(name, 'w') and write: the file holds exactly the new content
WriteFile(name, content) ==
    files' = [n \in DOMAIN files \cup {name} |->
                 IF n = name THEN content ELSE files[n]]

\* sys.exit(code), or an exception nobody catches (Python exits with 1)
Exit(code, byException) ==
    /\ pc' = "done"
    /\ exit_code' = code
    /\ uncaught' = byException

Running == /\ exit_code' = exit_code
           /\ uncaught' = uncaught

\* mutant: the two languages swapped
get_voice_swapped(lang) == IF lang = En THEN "ef_dora" ELSE "af_heart"

\* lines 26-28
get_voice(lang) == IF lang = Es THEN "ef_dora" ELSE "af_heart"

\* mutant: .lower() left out
FileExtensionCaseSensitive(p) == splitext(p)[2]

\* line 158
FileExtension(p) == Lower(splitext(p)[2])

\* line 167
Basename == splitext(os_basename(input_file))[1]
\* lines 168, 173, 174
output_file == Basename \o <<".", "m", "p", "3">>
raw_txt_file == Basename \o <<".", "r", "a", "w", ".", "t", "x", "t">>
processed_txt_file ==
    Basename \o <<".", "p", "r", "o", "c", "e", "s", "s", "e", "d",
                  ".", "t", "x", "t">>

\* lines 93-98
Payload(script_content, v) ==
    [input |-> script_content, model |-> "kokoro", voice |-> v,
     response_format |-> "mp3"]

\* lines 143-152: argparse rejects a language outside choices with status 2
ParseArgs ==
    /\ pc = "parse_args"
    /\ IF lang_arg # NoArg /\ lang_arg \notin {En, Es}
       THEN /\ Exit(2, FALSE)
            /\ UNCHANGED language
       ELSE /\ language' = (IF lang_arg = NoArg THEN None ELSE lang_arg)
            /\ pc' = "check_exists"
            /\ Running
    /\ UNCHANGED <<log, files, inputsB, typed, lang_input, voice,
                   file_extension, processed_script, script_for_tts, ret,
                   varsA>>

\* lines 154-156
CheckExists ==
    /\ pc = "check_exists"
    /\ IF ~input_exists
       THEN Exit(1, FALSE)
       ELSE pc' = "check_extension" /\ Running
    /\ UNCHANGED <<log, files, inputsB, language, typed, lang_input, voice,
                   file_extension, processed_script, script_for_tts, ret,
                   varsA>>

\* lines 158-163
CheckExtension ==
    /\ pc = "check_extension"
    /\ file_extension' = FileExtension(input_file)
    /\ IF file_extension' \notin {DotPdf, DotTxt}
       THEN Exit(1, FALSE)
       ELSE /\ pc' = (IF language = None THEN "select_language"
                                         ELSE "get_voice")
            /\ Running
    /\ UNCHANGED <<log, files, inputsB, language, typed, lang_input, voice,
                   processed_script, script_for_tts, ret, varsA>>

\* lines 19-24, one turn of the loop: a line is read and lower-cased
SelectLanguageRead ==
    /\ pc = "select_language"
    /\ \E line \in LangStrings :
          /\ typed' = line
          /\ lang_input' = Lower(line)
          /\ IF lang_input' \in {En, Es}
             THEN language' = lang_input' /\ pc' = "get_voice"
             ELSE language' = language /\ pc' = "select_language"
    /\ Running
    /\ UNCHANGED <<log, files, inputsB, voice, file_extension,
                   processed_script, script_for_tts, ret, varsA>>

\* line 22: stdin is closed, input() raises EOFError, nobody catches it
SelectLanguageEOF ==
    /\ pc = "select_language"
    /\ Exit(1, TRUE)
    /\ UNCHANGED <<log, files, varsB, varsA>>

\* mutant: every input is sent down the PDF path
GetVoiceAlwaysPdf ==
    /\ pc = "get_voice"
    /\ voice' = get_voice(language)
    /\ script_for_tts' = ""
    /\ pc' = "convert_pdf"
    /\ Running
    /\ UNCHANGED <<log, files, inputsB, language, typed, lang_input,
                   file_extension, processed_script, ret, varsA>>

\* lines 166-171, 188
GetVoice ==
    /\ pc = "get_voice"
    /\ voice' = get_voice(language)
    /\ script_for_tts' = ""
    /\ pc' = (IF file_extension = DotPdf THEN "convert_pdf" ELSE "read_txt")
    /\ Running
    /\ UNCHANGED <<log, files, inputsB, language, typed, lang_input,
                   file_extension, processed_script, ret, varsA>>

\* lines 30-42 and 176-177: pdftotext writes the raw text file; a missing
\* binary or a non-zero exit makes main exit. A run that failed may have left
\* a raw text file behind.
ConvertPdfToText ==
    /\ pc = "convert_pdf"
    /\ \E outcome \in {"ok", "FileNotFoundError", "CalledProcessError"},
          left \in BOOLEAN :
          /\ outcome = "ok" => left
          /\ outcome = "FileNotFoundError" => ~left
          /\ IF outcome = "FileNotFoundError"
             THEN UNCHANGED log
             ELSE Logged(Event("run", "pdftotext", raw_txt_file, outcome))
          /\ IF left THEN WriteFile(raw_txt_file, "raw text")
                     ELSE UNCHANGED files
          /\ IF outcome = "ok"
             THEN pc' = "format_gemini" /\ Running
             ELSE Exit(1, FALSE)
    /\ UNCHANGED <<varsB, varsA>>

GeminiOutcomes ==
    {"RequestException", "HTTPError", "KeyError", "TypeError", "empty"}

\* lines 44-87 and 179-181: without the key no request is made; every failure
\* of the request and an empty script give None, and main exits. A response
\* of an unexpected type raises an exception nobody catches.
FormatTextWithGemini ==
    /\ pc = "format_gemini"
    /\ IF ~api_key_set
       THEN /\ Exit(1, FALSE)
            /\ UNCHANGED <<log, processed_script>>
       ELSE /\ \E outcome \in GeminiOutcomes \cup Scripts :
                  /\ Logged(Event("post", GEMINI_API_URL,
                                  files[raw_txt_file], outcome))
                  /\ IF outcome \in Scripts
                     THEN /\ processed_script' = outcome
                          /\ pc' = "write_processed"
                          /\ Running
                     ELSE /\ processed_script' =
                                (IF outcome = "empty" THEN "" ELSE "None")
                          /\ Exit(1, outcome = "TypeError")
    /\ UNCHANGED <<files, inputsB, language, typed, lang_input, voice,
                   file_extension, script_for_tts, ret, varsA>>

\* lines 183-186; open() can fail (read-only directory), nobody catches it
WriteProcessed ==
    /\ pc = "write_processed"
    /\ \E ok \in BOOLEAN :
          IF ok
          THEN /\ WriteFile(processed_txt_file, processed_script)
               /\ Logged(Event("open", "disk", processed_txt_file, "ok"))
               /\ script_for_tts' = processed_script
               /\ pc' = "check_script"
               /\ Running
          ELSE /\ Exit(1, TRUE)
               /\ UNCHANGED <<files, log, script_for_tts>>
    /\ UNCHANGED <<inputsB, language, typed, lang_input, voice,
                   file_extension, processed_script, ret, varsA>>

\* lines 188-195: the file's text, possibly empty; FileNotFoundError makes main
\* exit; any other error of open/read (a directory, undecodable bytes) is not
\* caught
ReadTxt ==
    /\ pc = "read_txt"
    /\ \E outcome \in {"FileNotFoundError", "OSError", ""} \cup Scripts :
          /\ Logged(Event("read", "disk", input_file, outcome))
          /\ IF outcome \in {"FileNotFoundError", "OSError"}
             THEN /\ Exit(1, outcome = "OSError")
                  /\ UNCHANGED script_for_tts
             ELSE /\ script_for_tts' = outcome
                  /\ pc' = "check_script"
                  /\ Running
    /\ UNCHANGED <<files, inputsB, language, typed, lang_input, voice,
                   file_extension, processed_script, ret, varsA>>

\* mutant: the script is sent to TTS without looking at it
CheckScriptSkipped ==
    /\ pc = "check_script"
    /\ pc' = "tts_primary_post"
    /\ Running
    /\ UNCHANGED <<log, files, varsB, varsA>>

\* lines 197-201
CheckScript ==
    /\ pc = "check_script"
    /\ IF script_for_tts # ""
       THEN pc' = "tts_primary_post" /\ Running
       ELSE Exit(1, FALSE)
    /\ UNCHANGED <<log, files, varsB, varsA>>

(***************************************************************************)
(* generate_audiobook, lines 90-139.  One attempt is: the POST and          *)
(* raise_for_status, then open(output_path, 'wb'), then the body chunk by  *)
(* chunk.  requests raises RequestException for a timeout, a refused or    *)
(* broken connection and a non-success status, also while the body is      *)
(* read; open() and write() raise OSError, which neither attempt catches.  *)
(***************************************************************************)
PostOutcomes == {"ok", "Timeout", "ConnectionError", "HTTPError"}

\* mutant: raise_for_status() left out, a non-success status passes
PostSucceededNoStatusCheck(outcome) == outcome \in {"ok", "HTTPError"}

\* lines 104-111 / 123-130: no exception from post() or raise_for_status()
PostSucceeded(outcome) == outcome = "ok"

\* lines 104-111 and 117-118 / 123-130 and 136-139
TtsPost(server, opened_pc, failed_pc, failed_ret) ==
    \E outcome \in PostOutcomes :
       /\ Logged(Event("post", server, Payload(script_for_tts, voice),
                       outcome))
       /\ IF PostSucceeded(outcome)
          THEN pc' = opened_pc /\ ret' = ret
          ELSE pc' = failed_pc /\ ret' = failed_ret
       /\ Running
       /\ UNCHANGED <<files, inputsB, language, typed, lang_input, voice,
                      file_extension, processed_script, script_for_tts,
                      varsA>>

\* lines 112 / 131: open(output_path, 'wb') creates or truncates the file
TtsOpen(server, stream_pc) ==
    \E ok \in BOOLEAN :
       /\ IF ok
          THEN /\ WriteFile(output_file, 0)
               /\ Logged(Event("open", server, output_file, "ok"))
               /\ pc' = stream_pc
               /\ ret' = ret
               /\ Running
          ELSE /\ Exit(1, TRUE)
               /\ ret' = "raised"
               /\ UNCHANGED <<files, log>>
       /\ UNCHANGED <<inputsB, language, typed, lang_input, voice,
                      file_extension, processed_script, script_for_tts,
                      varsA>>

\* lines 113-118 / 132-139: the next chunk is written, or the body ends and
\* the function returns True, or reading it raises RequestException, or the
\* write raises OSError
TtsStream(server, failed_pc, failed_ret) ==
    \E step \in {"chunk", "end", "RequestException", "OSError"} :
       /\ step = "chunk" => files[output_file] < MaxChunks
       /\ IF step = "chunk"
          THEN /\ WriteFile(output_file, files[output_file] + 1)
               /\ UNCHANGED log
          ELSE /\ UNCHANGED files
               /\ Logged(Event("body", server, output_file, step))
       /\ CASE step = "chunk" -> pc' = pc /\ ret' = ret /\ Running
            [] step = "end" -> pc' = "main_end" /\ ret' = "True" /\ Running
            [] step = "RequestException" ->
                   pc' = failed_pc /\ ret' = failed_ret /\ Running
            [] step = "OSError" -> Exit(1, TRUE) /\ ret' = "raised"
       /\ UNCHANGED <<inputsB, language, typed, lang_input, voice,
                      file_extension, processed_script, script_for_tts,
                      varsA>>

\* mutant: a failed primary request ends the call, the fallback is not tried
TtsPrimaryPostNoFallback ==
    /\ pc = "tts_primary_post"
    /\ TtsPost(PRIMARY_SERVER, "tts_primary_open", "main_end", "False")

TtsPrimaryPost ==
    /\ pc = "tts_primary_post"
    /\ TtsPost(PRIMARY_SERVER, "tts_primary_open", "tts_fallback_post", ret)

TtsPrimaryOpen ==
    /\ pc = "tts_primary_open"
    /\ TtsOpen(PRIMARY_SERVER, "tts_primary_stream")

TtsPrimaryStream ==
    /\ pc = "tts_primary_stream"
    /\ TtsStream(PRIMARY_SERVER, "tts_fallback_post", ret)

TtsFallbackPost ==
    /\ pc = "tts_fallback_post"
    /\ TtsPost(FALLBACK_SERVER, "tts_fallback_open", "main_end", "False")

TtsFallbackOpen ==
    /\ pc = "tts_fallback_open"
    /\ TtsOpen(FALLBACK_SERVER, "tts_fallback_stream")

TtsFallbackStream ==
    /\ pc = "tts_fallback_stream"
    /\ TtsStream(FALLBACK_SERVER, "main_end", "False")

\* lines 198 and 203-204: the result of generate_audiobook is dropped, main
\* returns and the interpreter exits with status 0
MainEnd ==
    /\ pc = "main_end"
    /\ Exit(0, FALSE)
    /\ UNCHANGED <<log, files, varsB, varsA>>

InitB ==
    /\ pc = "parse_args"
    /\ exit_code = -1
    /\ uncaught = FALSE
    /\ log = <<>>
    /\ files = <<>>
    /\ input_file \in Paths
    /\ lang_arg \in {NoArg} \cup LangStrings
    /\ input_exists \in (IF input_file = <<>> THEN {FALSE} ELSE BOOLEAN)
    /\ api_key_set \in BOOLEAN
    /\ language = None
    /\ typed = <<>>
    /\ lang_input = <<>>
    /\ voice = ""
    /\ file_extension = <<>>
    /\ processed_script = "None"
    /\ script_for_tts = ""
    /\ ret = "not_called"
    /\ title_rc = -1
    /\ title = <<>>
    /\ safe_title = <<>>

NextB ==
    \/ ParseArgs
    \/ CheckExists
    \/ CheckExtension
    \/ SelectLanguageRead
    \/ SelectLanguageEOF
    \/ GetVoice
    \/ ConvertPdfToText
    \/ FormatTextWithGemini
    \/ WriteProcessed
    \/ ReadTxt
    \/ CheckScript
    \/ TtsPrimaryPost
    \/ TtsPrimaryOpen
    \/ TtsPrimaryStream
    \/ TtsFallbackPost
    \/ TtsFallbackOpen
    \/ TtsFallbackStream
    \/ MainEnd

Spec == InitB /\ [][NextB]_vars

(***************************************************************************)
(* Program A: bin/transcribe_youtube.py, a script run top to bottom.       *)
(* An exception nobody catches ends it with status 1.                      *)
(***************************************************************************)
Forbidden == {"/", "\\", ":", "*", "?", "\"", "<", ">", "|"}
TitleAlphabet == Forbidden \cup {"_", "a", " "}
TitleOutputs == SeqsUpTo(TitleAlphabet, MaxTitleLen)

\* str.strip(): leading and trailing whitespace removed
Strip(s) ==
    LET inked == {i \in 1..Len(s) : s[i] # " "}
    IN  IF inked = {} THEN <<>>
        ELSE SubSeq(s, CHOOSE i \in inked : \A j \in inked : i <= j,
                       CHOOSE i \in inked : \A j \in inked : j <= i)

\* mutant: only the first occurrence is replaced
ReplaceFirst(s, old, new) ==
    [i \in 1..Len(s) |->
        IF s[i] = old /\ \A j \in 1..(i - 1) : s[j] # old THEN new ELSE s[i]]

\* str.replace(old, new) for one-character old and new
Replace(s, old, new) == [i \in 1..Len(s) |-> IF s[i] = old THEN new ELSE s[i]]

\* lines 35-45
Sanitize(t) ==
    LET r1 == Replace(t, "/", "_")
        r2 == Replace(r1, "\\", "_")
        r3 == Replace(r2, ":", "_")
        r4 == Replace(r3, "*", "_")
        r5 == Replace(r4, "?", "_")
        r6 == Replace(r5, "\"", "_")
        r7 == Replace(r6, "<", "_")
        r8 == Replace(r7, ">", "_")
    IN  Replace(r8, "|", "_")

\* lines 46-47
audio_file == safe_title \o <<".", "m", "p", "3">>
srt_file == safe_title \o <<".", "s", "r", "t">>

\* lines 21-26: the output directory and the URL prompt
PromptUrl ==
    /\ pc = "prompt_url"
    /\ \E ok \in BOOLEAN :
          IF ok THEN pc' = "title_lookup" /\ Running
                ELSE Exit(1, TRUE)
    /\ UNCHANGED <<log, files, varsB, varsA>>

\* lines 31-33: subprocess.run without check: the return code is not looked
\* at, the title is whatever yt-dlp printed, stripped. A missing yt-dlp raises
\* FileNotFoundError.
TitleLookup ==
    /\ pc = "title_lookup"
    /\ \/ /\ Exit(1, TRUE)
          /\ UNCHANGED <<log, title, title_rc>>
       \/ \E rc \in {0, 1}, stdout \in TitleOutputs :
             /\ title_rc' = rc
             /\ title' = Strip(stdout)
             /\ Logged(Event("run", "yt-dlp --print", stdout,
                             IF rc = 0 THEN "ok" ELSE "non-zero exit"))
             /\ pc' = "sanitize"
             /\ Running
    /\ UNCHANGED <<files, varsB, safe_title>>

\* lines 35-48
SanitizeTitle ==
    /\ pc = "sanitize"
    /\ safe_title' = Sanitize(title)
    /\ pc' = "download"
    /\ Running
    /\ UNCHANGED <<log, files, varsB, title_rc, title>>

\* lines 53-56: check=True, a non-zero exit raises CalledProcessError
DownloadAudio ==
    /\ pc = "download"
    /\ \E outcome \in {"ok", "FileNotFoundError", "CalledProcessError"} :
          /\ IF outcome = "FileNotFoundError"
             THEN UNCHANGED log
             ELSE Logged(Event("run", "yt-dlp -x", audio_file, outcome))
          /\ IF outcome = "ok"
             THEN /\ WriteFile(audio_file, "audio")
                  /\ pc' = "transcribe"
                  /\ Running
             ELSE /\ Exit(1, TRUE)
                  /\ UNCHANGED files
    /\ UNCHANGED <<varsB, varsA>>

\* lines 61-65: the model is loaded and run on the audio file
Transcribe ==
    /\ pc = "transcribe"
    /\ \E ok \in BOOLEAN :
          IF ok
          THEN /\ Logged(Event("run", "whisper", audio_file, "ok"))
               /\ pc' = "save_srt"
               /\ Running
          ELSE /\ Exit(1, TRUE)
               /\ UNCHANGED log
    /\ UNCHANGED <<files, varsB, varsA>>

\* lines 70-79
SaveSrt ==
    /\ pc = "save_srt"
    /\ \E ok \in BOOLEAN :
          IF ok
          THEN /\ WriteFile(srt_file, "subtitles")
               /\ Logged(Event("open", "disk", srt_file, "ok"))
               /\ Exit(0, FALSE)
          ELSE /\ Exit(1, TRUE)
               /\ UNCHANGED <<files, log>>
    /\ UNCHANGED <<varsB, varsA>>

InitA ==
    /\ pc = "prompt_url"
    /\ exit_code = -1
    /\ uncaught = FALSE
    /\ log = <<>>
    /\ files = <<>>
    /\ input_file = <<>>
    /\ lang_arg = NoArg
    /\ input_exists = FALSE
    /\ api_key_set = FALSE
    /\ language = None
    /\ typed = <<>>
    /\ lang_input = <<>>
    /\ voice = ""
    /\ file_extension = <<>>
    /\ processed_script = "None"
    /\ script_for_tts = ""
    /\ ret = "not_called"
    /\ title_rc = -1
    /\ title = <<>>
    /\ safe_title = <<>>

NextA ==
    \/ PromptUrl
    \/ TitleLookup
    \/ SanitizeTitle
    \/ DownloadAudio
    \/ Transcribe
    \/ SaveSrt

SpecA == InitA /\ [][NextA]_vars

(***************************************************************************)
(* Reading the history                                                     *)
(***************************************************************************)
Events(kind, target) ==
    {i \in DOMAIN log : log[i].kind = kind /\ log[i].target = target}

TtsPosts == Events("post", PRIMARY_SERVER) \cup Events("post", FALLBACK_SERVER)

\* the output .mp3 was opened for writing
Mp3Opens == {i \in DOMAIN log : log[i].kind = "open" /\ log[i].target # "disk"}

\* an attempt against a server failed at the request level: the POST raised or
\* returned a non-success status, or reading the body raised
AttemptFailed(server) ==
    \/ \E i \in Events("post", server) : log[i].result # "ok"
    \/ \E i \in Events("body", server) : log[i].result = "RequestException"

\* language accepted by argparse (choices) or not given
ArgsAccepted == lang_arg \in {NoArg, En, Es}

\* C1: Program B exits with code 1 on every unrecoverable failure: input file
\* missing, extension not .pdf/.txt, GEMINI_API_KEY unset on the PDF path,
\* pdftotext failure, Gemini failure or empty/malformed response, and both TTS
\* servers failing (generate_audiobook returned False).
C1_ExitOneOnEveryFailure ==
    (/\ pc = "done"
     /\ ArgsAccepted
     /\ \/ ~input_exists
        \/ FileExtension(input_file) \notin {DotPdf, DotTxt}
        \/ \E i \in Events("run", "pdftotext") : log[i].result # "ok"
        \/ file_extension = DotPdf /\ ~api_key_set /\ language # None
        \/ \E i \in Events("post", GEMINI_API_URL) :
              log[i].result \notin Scripts
        \/ ret = "False")
    => exit_code = 1

\* C2: the fallback address is requested if and only if the primary attempt
\* failed at the request level; a successful primary is never followed by a
\* fallback request, and a failed primary is followed by exactly one fallback
\* request with the identical payload.
C2_FallbackIffPrimaryFailed ==
    LET primary == Events("post", PRIMARY_SERVER)
        fallback == Events("post", FALLBACK_SERVER)
    IN  /\ fallback # {} => AttemptFailed(PRIMARY_SERVER)
        /\ (\E i \in Events("body", PRIMARY_SERVER) : log[i].result = "end")
              => fallback = {} /\ ret = "True"
        /\ AttemptFailed(PRIMARY_SERVER) =>
              \/ pc = "tts_fallback_post" /\ fallback = {}
              \/ /\ Cardinality(fallback) = 1
                 /\ \A i \in primary, j \in fallback :
                       i < j /\ log[j].arg = log[i].arg

C2_Witness ==
    /\ \E i \in Events("body", PRIMARY_SERVER) :
          log[i].result = "RequestException"
    /\ Events("post", FALLBACK_SERVER) # {}
    /\ files[output_file] > 0

\* C3: if both TTS attempts fail, generate_audiobook returns a falsy result
\* and the output .mp3 was never opened for writing (nothing written, nothing
\* partially written).
C3_NoOutputWhenBothFail ==
    ret = "False" => Mp3Opens = {} /\ output_file \notin DOMAIN files

\* C4: at most one request per address, the primary before the fallback, and
\* generate_audiobook returns False only after both addresses were requested
\* and both attempts failed.
C4_OneAttemptPerAddress ==
    LET primary == Events("post", PRIMARY_SERVER)
        fallback == Events("post", FALLBACK_SERVER)
    IN  /\ Cardinality(primary) <= 1
        /\ Cardinality(fallback) <= 1
        /\ \A j \in fallback : \E i \in primary : i < j
        /\ ret = "False" =>
              /\ Cardinality(primary) = 1
              /\ Cardinality(fallback) = 1
              /\ AttemptFailed(PRIMARY_SERVER)
              /\ AttemptFailed(FALLBACK_SERVER)

C4_Witness ==
    /\ ret = "False"
    /\ log[Len(log)].kind = "body"

\* the path names a file whose last four characters are, in any case, .pdf or
\* .txt, with a character other than a dot in front of them in the last
\* component of the path
HasPdfOrTxtExtension(p) ==
    LET n == Len(p)
    IN  /\ n >= 5
        /\ Lower(SubSeq(p, n - 3, n)) \in {DotPdf, DotTxt}
        /\ \E k \in 1..(n - 4) :
              /\ p[k] # "."
              /\ \A j \in k..n : p[j] # "/"

\* C5: for every existing input path main goes on to language selection and
\* processing iff the extension is .pdf or .txt in any case; otherwise it
\* exits with code 1 before any file is written, any subprocess is run or any
\* HTTP request is made.
C5_ExtensionDispatch ==
    [][pc = "check_extension" =>
          /\ input_exists
          /\ log = <<>> /\ files = <<>>
          /\ IF HasPdfOrTxtExtension(input_file)
             THEN /\ pc' \in {"select_language", "get_voice"}
                  /\ exit_code' = -1
             ELSE /\ pc' = "done"
                  /\ exit_code' = 1
                  /\ log' = <<>> /\ files' = <<>>]_vars

C5_Witness ==
    /\ input_file = <<".", "a", ".", "P", "d", "f">>
    /\ pc = "convert_pdf"

\* C6 as stated: the language passed to get_voice is 'en' or 'es', the CLI
\* argument when given, otherwise what select_language returned, and
\* select_language returns only when the input typed is one of en, es; the
\* voice is ef_dora exactly when the language is es.
C6_OnlyEnEsTyped ==
    voice # "" =>
        /\ language \in {En, Es}
        /\ lang_arg # NoArg => language = lang_arg
        /\ lang_arg = NoArg => typed \in {En, Es} /\ language = typed
        /\ voice = (IF language = Es THEN "ef_dora" ELSE "af_heart")

\* C6 amended: as above, but select_language lower-cases what was typed:
\* it re-prompts after every input whose lower-cased form is outside {en, es}
\* and returns the lower-cased input otherwise.
C6_LanguageAndVoice ==
    /\ pc = "select_language" =>
          /\ language = None
          /\ lang_arg = NoArg
          /\ Lower(typed) \notin {En, Es}
    /\ (pc = "get_voice" \/ voice # "") =>
          /\ language \in {En, Es}
          /\ lang_arg # NoArg => language = lang_arg /\ typed = <<>>
          /\ lang_arg = NoArg =>
                /\ \A i \in 1..Len(typed) :
                      language[i] = typed[i] \/ <<language[i], typed[i]>> \in
                             {<<"e", "E">>, <<"n", "N">>, <<"s", "S">>}
                /\ Len(language) = Len(typed)
    /\ voice # "" =>
          /\ voice \in {"ef_dora", "af_heart"}
          /\ voice = "ef_dora" <=> language = Es
    /\ \A i \in TtsPosts :
          /\ log[i].arg.voice = voice
          /\ log[i].arg.voice = "ef_dora" <=> language = Es

C6_Witness ==
    /\ typed = <<"E", "s">>
    /\ voice = "ef_dora"
    /\ TtsPosts # {}

\* the name of the final audio file: the input's last path component with
\* its four-character extension replaced by .mp3
Mp3NameOf(p) ==
    LET b == os_basename(p)
    IN  SubSeq(b, 1, Len(b) - 4) \o <<".", "m", "p", "3">>

\* C9: intermediate files are written on the PDF path only and in pipeline
\* order: the raw text by extraction, the processed script only after Gemini
\* returned a non-empty script, the .mp3 (named after the input's base name)
\* only after that; on the .txt path no extraction runs, no Gemini request is
\* made (with or without GEMINI_API_KEY) and no intermediate file is written.
C9_FilesInPipelineOrder ==
    LET extraction == Events("run", "pdftotext")
        gemini == Events("post", GEMINI_API_URL)
        processed == {i \in Events("open", "disk") :
                         log[i].arg = processed_txt_file}
    IN  /\ raw_txt_file \in DOMAIN files =>
              file_extension = DotPdf /\ extraction # {}
        /\ processed_txt_file \in DOMAIN files =>
              /\ file_extension = DotPdf
              /\ files[processed_txt_file] \in Scripts
              /\ \E i \in extraction, j \in gemini, k \in processed :
                    /\ i < j /\ j < k
                    /\ log[i].result = "ok"
                    /\ log[j].result = files[processed_txt_file]
        /\ \A m \in Mp3Opens :
              /\ log[m].arg = Mp3NameOf(input_file)
              /\ file_extension = DotPdf =>
                    \E k \in processed : k < m
        /\ DOMAIN files \subseteq
              {raw_txt_file, processed_txt_file, Mp3NameOf(input_file)}
        /\ file_extension = DotTxt =>
              /\ extraction = {} /\ gemini = {}
              /\ raw_txt_file \notin DOMAIN files
              /\ processed_txt_file \notin DOMAIN files

C9_Witness ==
    /\ file_extension = DotPdf
    /\ ret = "True"
    /\ files[output_file] = MaxChunks
    /\ raw_txt_file \in DOMAIN files
    /\ processed_txt_file \in DOMAIN files

\* C10: a TTS request carries a non-empty script and is sent only after every
\* earlier step succeeded: when extraction failed, the Gemini call failed or
\* returned an empty script, or the .txt input is empty, no request reaches
\* either TTS address, no .mp3 is written and the exit code is 1.
C10_TtsOnlyAfterSuccess ==
    LET earlier_failed ==
            \/ \E i \in Events("run", "pdftotext") : log[i].result # "ok"
            \/ \E i \in Events("post", GEMINI_API_URL) :
                  log[i].result \notin Scripts
            \/ \E i \in Events("read", "disk") : log[i].result \notin Scripts
    IN  /\ \A i \in TtsPosts :
              /\ log[i].arg.input # ""
              /\ ~earlier_failed
              /\ \/ \E j \in Events("read", "disk") :
                       j < i /\ log[j].result = log[i].arg.input
                 \/ \E j \in Events("post", GEMINI_API_URL) :
                       j < i /\ log[j].result = log[i].arg.input
        /\ earlier_failed =>
              /\ TtsPosts = {}
              /\ Mp3Opens = {}
              /\ output_file \notin DOMAIN files
              /\ pc \in {"check_script", "done"}
              /\ pc = "done" => exit_code = 1

C10_Witness ==
    /\ pc = "done"
    /\ \E i \in Events("read", "disk") : log[i].result = ""
    /\ exit_code = 1

(***************************************************************************)
(* Program A                                                               *)
(***************************************************************************)
\* C7: sanitization replaces each occurrence of each forbidden character of
\* the title with an underscore and changes nothing else (same length, every
\* other character kept in place, no forbidden character left), and is
\* idempotent: sanitizing the sanitized title returns it unchanged.
C7_SanitizeTitle ==
    pc # "sanitize" =>
        /\ Len(safe_title) = Len(title)
        /\ \A i \in 1..Len(title) :
              safe_title[i] = (IF title[i] \in Forbidden THEN "_"
                                                         ELSE title[i])
        /\ \A i \in 1..Len(safe_title) : safe_title[i] \notin Forbidden
        /\ Sanitize(safe_title) = safe_title

C7_Witness ==
    /\ pc = "download"
    /\ title = <<"|", "a", "|">>
    /\ safe_title = <<"_", "a", "_">>

\* C8: no pipeline step runs after an earlier step has failed: a failure
\* either ends the program with code 1 or gives a sentinel the caller checks
\* before going on (here: the title lookup and the audio download of
\* Program A, whose external tool exited non-zero).
C8_NoStepAfterFailure ==
    \A i \in DOMAIN log :
       (log[i].kind = "run" /\ log[i].result # "ok") =>
           i = Len(log)

====
